---- MODULE Spec2Model ----
(***************************************************************************)
(* Adaptive polling coordinator of isin_quotes                             *)
(* (custom_components/isin_quotes/coordinator.py, market_hours.py,         *)
(* api_client.py, const.py).                                               *)
(*                                                                         *)
(* One QuotesCoordinator is modelled.  A refresh is                        *)
(* QuotesCoordinator._async_update_data, split at its await points (the    *)
(* calls of IngApiClient.fetch_instrument_header); the inherited           *)
(* DataUpdateCoordinator stores the returned dict in self.data and leaves  *)
(* self.data alone when _async_update_data raises.                         *)
(*                                                                         *)
(* Representation of Python values:                                        *)
(*   None as an exchange code / market state   the string None             *)
(*   self.data = None                          NoData                      *)
(*   a JSON object                             [t |-> "dict", items |-> f] *)
(*   a JSON null / number / string             JNull, JNum(n), JStr(s)     *)
(*   "HH:MM" in the table                      <<h, m>>, "" is <<>>        *)
(*   a time of day                             ticks: 2 * minute, plus 1   *)
(*                                             when seconds or microseconds*)
(*                                             are not zero                *)
(***************************************************************************)
EXTENDS Integers, Sequences, FiniteSets, TLC

VARIABLES
    exchange_code,      \* self.config.get(CONF_EXCHANGE_CODE)
    update_interval,    \* self.update_interval, in seconds
    data,               \* self.data
    pc,                 \* position of _async_update_data: "idle" or the awaited line
    market_state,       \* local market_state of the current / last refresh
    calls,              \* exchange_code arguments of the fetches of the current / last refresh
    events,             \* how the request of each of those fetches ended
    outcome,            \* how the current / last refresh ended
    data_before,        \* self.data when the current / last refresh began
    user_interval,      \* the configured interval, or the one last given to set_update_interval
    pushed,             \* set_update_interval was called from outside since the refresh began
    hours,              \* the MARKET_HOURS entry a query of the market calendar reads
    clock,              \* the instant datetime.now() of that query
    focus,              \* which coordinator the variables above belong to
    peer,               \* the state of the other coordinator, when there are two
    step,               \* where the setup wizard stands: the form shown, or how it ended
    errors,             \* the errors dict of the form the wizard shows
    flow_isin,          \* self._isin of the wizard
    flow_items,         \* self._items of the wizard
    user_input,         \* the user_input last handed to a step of the wizard
    entries,            \* the configuration entries
    running,            \* the entry that the coordinator was created for, if any
    setup_pc,           \* position of async_setup_entry for that entry
    flow_raised,        \* the exception that left the last step of the wizard, if any
    lookup,             \* how the request of the last step of the wizard ended, if it made one
    hass_data,          \* hass.data[DOMAIN]: its keys and values in the order of insertion
    sensors,            \* the GlobalIsinQuotesHistorySensor objects created: their _payload
    setup_of,           \* for each entry, how far its setup has come
    history_file,       \* the cached history file of the requested chart
    service,            \* the last call of the fetch_history service and how it ended
    logo_files,         \* for each ISIN, its logo file under www/isin_quotes
    logo_call           \* for each caller of ensure_logo_svg, its call and how it ended

\* the state of one coordinator
coordinator == <<exchange_code, update_interval, data, pc, market_state, calls,
                 events, outcome, data_before, user_interval, pushed>>

\* the setup wizard, the configuration entries and their setup
wizard == <<step, errors, flow_isin, flow_items, user_input, entries, running,
            setup_pc, flow_raised, lookup>>

\* the loaded entries in hass.data, the history entity and the fetch_history service
services == <<hass_data, sensors, setup_of, history_file, service>>

\* the logo cache and the calls of ensure_logo_svg
logos == <<logo_files, logo_call>>

\* what no operation of a coordinator touches
aside == <<hours, clock, focus, peer, wizard, services, logos>>

vars == <<coordinator, aside>>

----------------------------------------------------------------------------
(* Bounds of the model *)

\* prices of the modelled responses are 0 .. MaxPrice
MaxPrice == 1

\* resolution of the clock: a minute has TicksPerMinute ticks, the first of them
\* being the instant with seconds and microseconds zero
TicksPerMinute == 2

----------------------------------------------------------------------------
(* const.py *)

DEFAULT_UPDATE_INTERVAL == 60
OPEN_UPDATE_INTERVAL == 60
CLOSED_UPDATE_INTERVAL == 15 * 60

----------------------------------------------------------------------------
(* Python values *)

None == "<None>"
NoData == [t |-> "None"]

JNull == [j |-> "null"]
JNum(n) == [j |-> "num", v |-> n]
JStr(s) == [j |-> "str", v |-> s]

Dict(f) == [t |-> "dict", items |-> f]

\* bool(d) of a dict or None
Truthy(d) == d.t = "dict" /\ DOMAIN d.items # {}

\* "price" not in data or data.get("price") is None
PriceMissing(d) == "price" \notin DOMAIN d.items \/ d.items["price"] = JNull

----------------------------------------------------------------------------
(* market_hours.py *)

\* index in WEEKDAYS = datetime.weekday(): 0 is "mon", 6 is "sun"
WEEKDAYS == 0 .. 6

\* one "open" or "close" dict of the table: the same string mon..fri, "" on sat and sun
MonFri(hhmm) == [wd \in WEEKDAYS |-> IF wd <= 4 THEN hhmm ELSE <<>>]

Entry(tz, open, close) == [tz |-> tz, open |-> MonFri(open), close |-> MonFri(close)]

MARKET_HOURS ==
    [code \in {"TGT", "FRA", "STU", "DUS", "ETR", "MUC", "BEB", "HAM", "HAJ", "UTC", "USC"} |->
        CASE code \in {"TGT", "FRA", "STU", "MUC", "HAM", "HAJ"} ->
                Entry("Europe/Berlin", <<8, 0>>, <<22, 0>>)
          [] code \in {"DUS", "BEB"} ->
                Entry("Europe/Berlin", <<8, 0>>, <<20, 0>>)
          [] code = "ETR" ->
                Entry("Europe/Berlin", <<9, 0>>, <<17, 30>>)
          [] code \in {"UTC", "USC"} ->
                Entry("Amerika/New_York", <<9, 30>>, <<16, 0>>)]

----------------------------------------------------------------------------
(* Time: zoneinfo.ZoneInfo and datetime.now(tz) *)

TicksPerDay == 24 * 60 * TicksPerMinute

\* keys of the IANA database that the table could name
ZoneInfoKeys == {"Europe/Berlin", "America/New_York", "UTC"}

\* ZoneInfo(key): the key itself, or ZoneInfoNotFoundError
ZoneInfo(key) == IF key \in ZoneInfoKeys THEN key ELSE "ZoneInfoNotFoundError"

\* info["tz"] resolved; dt_util.DEFAULT_TIME_ZONE (UTC unless configured) for an empty tz
ResolveTz(info) == IF info.tz # "" THEN ZoneInfo(info.tz) ELSE "UTC"

\* minutes east of UTC of a zone, in standard time or in daylight saving time
UtcOffset(tz, dst) ==
    CASE tz = "Europe/Berlin" -> IF dst THEN 120 ELSE 60
      [] tz = "America/New_York" -> IF dst THEN -240 ELSE -300
      [] OTHER -> 0

\* datetime.now(tz) for the instant now = [wd, tick, dst] given in UTC:
\* the wall clock of the zone, with its own weekday
NowLocal(now, tz) ==
    LET t == now.tick + TicksPerMinute * UtcOffset(tz, now.dst) IN
    IF t >= TicksPerDay THEN [wd |-> (now.wd + 1) % 7, tick |-> t - TicksPerDay]
    ELSE IF t < 0 THEN [wd |-> (now.wd + 6) % 7, tick |-> t + TicksPerDay]
    ELSE [wd |-> now.wd, tick |-> t]

\* now_local.replace(hour=h, minute=m, second=0, microsecond=0), as a tick of the same day
Replace(hhmm) == (hhmm[1] * 60 + hhmm[2]) * TicksPerMinute

----------------------------------------------------------------------------
(* coordinator.py: QuotesCoordinator._is_market_open *)

\* lines 57-74 without the overnight case of lines 70-72
MarketOpenAt_same_day(info, now) ==
    LET tz == ResolveTz(info) IN
    IF tz = "ZoneInfoNotFoundError" THEN "ZoneInfoNotFoundError"
    ELSE
        LET now_local == NowLocal(now, tz)
            open_str  == info.open[now_local.wd]
            close_str == info.close[now_local.wd]
        IN  IF open_str = <<>> \/ close_str = <<>> THEN "False"
            ELSE IF Replace(open_str) <= now_local.tick /\ now_local.tick <= Replace(close_str)
                 THEN "True" ELSE "False"

\* lines 57-74 with the overnight case taken only for a close before the open
MarketOpenAt_strictly_before(info, now) ==
    LET tz == ResolveTz(info) IN
    IF tz = "ZoneInfoNotFoundError" THEN "ZoneInfoNotFoundError"
    ELSE
        LET now_local == NowLocal(now, tz)
            open_str  == info.open[now_local.wd]
            close_str == info.close[now_local.wd]
        IN  IF open_str = <<>> \/ close_str = <<>> THEN "False"
            ELSE
                LET open_dt  == Replace(open_str)
                    close_dt == Replace(close_str)
                IN  IF close_dt < open_dt
                    THEN IF now_local.tick >= open_dt \/ now_local.tick <= close_dt
                         THEN "True" ELSE "False"
                    ELSE IF open_dt <= now_local.tick /\ now_local.tick <= close_dt
                         THEN "True" ELSE "False"

\* lines 57-74 with the hours after midnight counted to the overnight session
\* of the day before: open until its close, and not yet open by today's entry
MarketOpenAt_carries_over(info, now) ==
    LET tz == ResolveTz(info) IN
    IF tz = "ZoneInfoNotFoundError" THEN "ZoneInfoNotFoundError"
    ELSE
        LET now_local == NowLocal(now, tz)
            open_str  == info.open[now_local.wd]
            close_str == info.close[now_local.wd]
            open_before  == info.open[(now_local.wd + 6) % 7]
            close_before == info.close[(now_local.wd + 6) % 7]
            carried == /\ open_before # <<>> /\ close_before # <<>>
                       /\ Replace(close_before) <= Replace(open_before)
                       /\ now_local.tick <= Replace(close_before)
        IN  IF carried THEN "True"
            ELSE IF open_str = <<>> \/ close_str = <<>> THEN "False"
            ELSE
                LET open_dt  == Replace(open_str)
                    close_dt == Replace(close_str)
                IN  IF close_dt <= open_dt
                    THEN IF now_local.tick >= open_dt THEN "True" ELSE "False"
                    ELSE IF open_dt <= now_local.tick /\ now_local.tick <= close_dt
                         THEN "True" ELSE "False"

\* lines 57-74, for a table entry info: "True", "False", or the exception raised
MarketOpenAt(info, now) ==
    LET tz == ResolveTz(info) IN
    IF tz = "ZoneInfoNotFoundError" THEN "ZoneInfoNotFoundError"
    ELSE
        LET now_local == NowLocal(now, tz)
            open_str  == info.open[now_local.wd]
            close_str == info.close[now_local.wd]
        IN  IF open_str = <<>> \/ close_str = <<>> THEN "False"
            ELSE
                LET open_dt  == Replace(open_str)
                    close_dt == Replace(close_str)
                IN  IF close_dt <= open_dt
                    THEN IF now_local.tick >= open_dt \/ now_local.tick <= close_dt
                         THEN "True" ELSE "False"
                    ELSE IF open_dt <= now_local.tick /\ now_local.tick <= close_dt
                         THEN "True" ELSE "False"

\* an exchange without market hours taken for one that is closed all week
is_market_open_unmapped_closed(code, now) ==
    IF code = None \/ code = "" \/ code \notin DOMAIN MARKET_HOURS THEN "False"
    ELSE MarketOpenAt(MARKET_HOURS[code], now)

\* an exchange without market hours taken for one that is always open
is_market_open_unmapped_open(code, now) ==
    IF code = None \/ code = "" \/ code \notin DOMAIN MARKET_HOURS THEN "True"
    ELSE MarketOpenAt(MARKET_HOURS[code], now)

\* lines 46-74: "True", "False", None, or the exception raised
is_market_open(code, now) ==
    IF code = None \/ code = "" THEN None
    ELSE IF code \notin DOMAIN MARKET_HOURS THEN None
    ELSE MarketOpenAt(MARKET_HOURS[code], now)

----------------------------------------------------------------------------
(* api_client.py *)

\* what the upstream can deliver as a JSON object: any subset of the keys
\* "price" and "name", the price being null or a number
Prices == {JNull} \cup {JNum(n) : n \in 0 .. MaxPrice}
Names == {JStr("ING Groep")}
Bodies ==
    {Dict(f) : f \in UNION {{g \in [S -> Prices \cup Names] :
                                \A key \in S : /\ key = "price" => g[key] \in Prices
                                              /\ key = "name" => g[key] \in Names}
                            : S \in SUBSET {"price", "name"}}}

Malformed == [t |-> "malformed"]

\* timeout=20 of line 56, in seconds
REQUEST_TIMEOUT == 20

\* a request made without a timeout: nothing ends it but the upstream
TimedOut_never(timeout) == {}

\* how a request ends that the upstream never answers: aiohttp raises
\* TimeoutError when the timeout has passed, and waits on when it is 0
TimedOut(timeout) == IF timeout > 0 THEN {[e |-> "TimeoutError"]} ELSE {}

\* what one self._session.get(url, timeout=20) can end in
TransportEvents ==
    TimedOut(REQUEST_TIMEOUT) \cup {[e |-> "ClientError"]}
    \cup {[e |-> "response", status |-> 200, body |-> b] : b \in Bodies \cup {Malformed}}
    \cup {[e |-> "response", status |-> st, body |-> Malformed] : st \in {404, 500}}

IngApiError_status(st) == [type |-> "IngApiError", status |-> st]
IngApiError_network == [type |-> "IngApiError", note |-> "Network error"]

Return(v) == [k |-> "return", v |-> v]
Raise(exc) == [k |-> "raise", exc |-> exc]

\* IngApiClient._get_json: the value returned or the exception raised
get_json(ev) ==
    IF ev.e \in {"TimeoutError", "ClientError"} THEN Raise(IngApiError_network)
    ELSE IF ev.status # 200 THEN Raise(IngApiError_status(ev.status))
    ELSE IF ev.body = Malformed THEN Raise([type |-> "JSONDecodeError"])
    ELSE Return(ev.body)

\* IngApiClient.fetch_instrument_header(isin, exchange_code), given how the request ends
fetch_instrument_header(code, ev) == get_json(ev)

----------------------------------------------------------------------------
(* coordinator.py: QuotesCoordinator *)

\* the exchange codes a configuration entry can hold: absent, empty, a code
\* without market hours, and every key of the table
ExchangeCodes == {None, "", "XXX"} \cup DOMAIN MARKET_HOURS

\* CONF_UPDATE_INTERVAL of the configuration: absent ({}) or one value
UserIntervals == {15, 3600}
ConfigIntervals == {{}} \cup {{v} : v \in UserIntervals}

\* config.get(CONF_UPDATE_INTERVAL, DEFAULT_UPDATE_INTERVAL), line 35
ConfigGet(cfg, default) == IF cfg = {} THEN default ELSE CHOOSE v \in cfg : TRUE

\* the instants a refresh is tried at, in UTC: the first and the last trading
\* day and both closed days of the week, in and out of daylight saving time,
\* one tick before, at and after each open and close time of the configured
\* exchange in its zone, and around midnight
SampleDays == {0, 4, 5, 6}
TableTicks(code) ==
    IF code \in DOMAIN MARKET_HOURS
    THEN {Replace(hhmm) : hhmm \in
            UNION {{MARKET_HOURS[code].open[wd], MARKET_HOURS[code].close[wd]} \ {<<>>}
                   : wd \in WEEKDAYS}}
    ELSE {}
SampleTicks(code, dst) ==
    {t \in 0 .. TicksPerDay - 1 :
        \/ \E b \in TableTicks(code), dl \in {-1, 0, 1} :
              t = b - TicksPerMinute * UtcOffset(MARKET_HOURS[code].tz, dst) + dl
        \/ t \in {0, TicksPerDay - 1, TicksPerDay - TicksPerMinute * 120}}
Instants ==
    [code \in ExchangeCodes |->
        UNION {[wd : SampleDays, tick : SampleTicks(code, dst), dst : {dst}]
               : dst \in BOOLEAN}]

UpdateFailed(err) == [type |-> "UpdateFailed", cause |-> err]

\* the error of the fetch swallowed: an empty result instead of UpdateFailed
TryFetch_swallow(r) ==
    IF r.k = "raise" /\ r.exc.type = "IngApiError" THEN Return(Dict(<<>>)) ELSE r

\* the error of the fetch taken for a result without a price
TryFetch_priceless(r) ==
    IF r.k = "raise" /\ r.exc.type = "IngApiError"
    THEN Return(Dict([key \in {"name"} |-> JStr("ING Groep")]))
    ELSE r

\* try: data = await fetch(...)  except IngApiError as err: raise UpdateFailed(err) from err
TryFetch(r) ==
    IF r.k = "raise" /\ r.exc.type = "IngApiError" THEN Raise(UpdateFailed(r.exc)) ELSE r

\* line 97
Desired(ms) == IF ms = "True" THEN OPEN_UPDATE_INTERVAL ELSE CLOSED_UPDATE_INTERVAL

\* the adjustment applied only to the default interval
Adjusted_default_only(ms, interval) ==
    IF interval = DEFAULT_UPDATE_INTERVAL THEN Desired(ms) ELSE interval

\* lines 98-99: the interval after the adjustment
Adjusted(ms, interval) == IF interval # Desired(ms) THEN Desired(ms) ELSE interval

\* the closed market always fetches
HasData_never(d) == FALSE

\* the closed market never fetches
HasData_always(d) == TRUE

\* the closed market answered only from a snapshot that has a price
HasData_priced(d) == d # NoData /\ ~PriceMissing(d)

\* line 103: the closed market is answered from self.data
HasData(d) == d # NoData

\* line 119 without the truth test of data: an empty result retried as well
FallbackOpen_any_dict(d) == PriceMissing(d)

\* lines 89 and 119: the condition of the fallback fetch
FallbackUnknown(d) == Truthy(d) /\ PriceMissing(d)
FallbackOpen(d) == Truthy(d) /\ PriceMissing(d)

\* the returned dict merged into the old one (self.data.update(...))
RefreshedData_merge(result, old) ==
    IF result.k # "return" THEN old
    ELSE IF old = NoData THEN result.v
    ELSE Dict([key \in DOMAIN old.items \cup DOMAIN result.v.items |->
                 IF key \in DOMAIN result.v.items THEN result.v.items[key]
                 ELSE old.items[key]])

\* DataUpdateCoordinator: self.data = await self._async_update_data(); an
\* exception leaves self.data as it was
RefreshedData(result, old) == IF result.k = "return" THEN result.v ELSE old

\* lines 84-94 as a function of how the requests made so far ended: the calls
\* made, and the value returned, the exception raised, or a fetch still awaited
UnknownBranch(code, evs) ==
    LET pending == [k |-> "pending"]
        r1 == TryFetch(fetch_instrument_header(code, evs[1]))
        r2 == TryFetch(fetch_instrument_header(None, evs[2]))
    IN  IF evs = <<>> THEN [calls |-> <<code>>, result |-> pending]
        ELSE IF ~(r1.k = "return" /\ FallbackUnknown(r1.v))
             THEN [calls |-> <<code>>, result |-> r1]
        ELSE IF Len(evs) = 1 THEN [calls |-> <<code, None>>, result |-> pending]
        ELSE [calls |-> <<code, None>>, result |-> r2]

\* _async_update_data is left with result
Finish(result) ==
    /\ outcome' = result
    /\ data' = RefreshedData(result, data)
    /\ pc' = "idle"

\* QuotesCoordinator(hass, config) for an exchange code out of codes
Created(codes) ==
    /\ exchange_code \in codes
    /\ \E cfg \in ConfigIntervals :
          /\ update_interval = ConfigGet(cfg, DEFAULT_UPDATE_INTERVAL)
          /\ user_interval = update_interval
    /\ data = NoData
    /\ pc = "idle"
    /\ market_state = None
    /\ calls = <<>>
    /\ events = <<>>
    /\ outcome = [k |-> "none"]
    /\ data_before = NoData
    /\ pushed = FALSE

\* value of a variable that a specification does not use
NotUsed == "-"

\* the wizard and the entries left out of a specification
NoWizard ==
    /\ step = NotUsed
    /\ errors = NotUsed
    /\ flow_isin = NotUsed
    /\ flow_items = NotUsed
    /\ user_input = NotUsed
    /\ entries = NotUsed
    /\ running = NotUsed
    /\ setup_pc = NotUsed
    /\ flow_raised = NotUsed
    /\ lookup = NotUsed

\* hass.data and the services left out of a specification
NoServices ==
    /\ hass_data = NotUsed
    /\ sensors = NotUsed
    /\ setup_of = NotUsed
    /\ history_file = NotUsed
    /\ service = NotUsed

\* the logo cache left out of a specification
NoLogos ==
    /\ logo_files = NotUsed
    /\ logo_call = NotUsed

\* one configuration entry, its coordinator just created
Init ==
    /\ Created(ExchangeCodes)
    /\ hours = NotUsed
    /\ clock = NotUsed
    /\ focus = 1
    /\ peer = NotUsed
    /\ NoWizard
    /\ NoServices
    /\ NoLogos

\* set_update_interval that also drops the cached data, as a reload would
SetUpdateInterval_reloads(seconds) ==
    /\ update_interval' = seconds
    /\ user_interval' = seconds
    /\ pushed' = TRUE
    /\ data' = NoData
    /\ UNCHANGED <<exchange_code, pc, market_state, calls, events, outcome, data_before>>
    /\ UNCHANGED aside

\* set_update_interval(seconds), called from outside the refresh
SetUpdateInterval(seconds) ==
    /\ update_interval' = seconds
    /\ user_interval' = seconds
    /\ pushed' = TRUE
    /\ UNCHANGED <<exchange_code, data, pc, market_state, calls, events,
                   outcome, data_before>>
    /\ UNCHANGED aside

\* _async_update_data, lines 77-115: up to the first await, or to the return
\* of the cached data, or to the exception of _is_market_open
BeginRefresh(now) ==
    /\ pc = "idle"
    /\ LET ms == is_market_open(exchange_code, now) IN
       /\ market_state' = ms
       /\ data_before' = data
       /\ events' = <<>>
       /\ pushed' = FALSE
       /\ CASE ms = "ZoneInfoNotFoundError" ->
                 /\ Finish(Raise([type |-> "ZoneInfoNotFoundError"]))
                 /\ calls' = <<>>
                 /\ UNCHANGED update_interval
            [] ms = None ->
                 /\ calls' = <<exchange_code>>
                 /\ pc' = "L85"
                 /\ outcome' = [k |-> "pending"]
                 /\ UNCHANGED <<data, update_interval>>
            [] OTHER ->
                 /\ update_interval' = Adjusted(ms, update_interval)
                 /\ IF ms = "False" /\ HasData(data)
                    THEN /\ Finish(Return(data))
                         /\ calls' = <<>>
                    ELSE /\ calls' = <<exchange_code>>
                         /\ pc' = IF ms = "False" THEN "L107" ELSE "L115"
                         /\ outcome' = [k |-> "pending"]
                         /\ UNCHANGED data
    /\ UNCHANGED <<exchange_code, user_interval>>
    /\ UNCHANGED aside

\* lines 84-94 from the end of the first fetch: no market hours
PrimaryUnknown(ev) ==
    /\ pc = "L85"
    /\ LET r == TryFetch(fetch_instrument_header(exchange_code, ev)) IN
       /\ events' = Append(events, ev)
       /\ IF r.k = "return" /\ FallbackUnknown(r.v)
          THEN /\ pc' = "L91"
               /\ calls' = Append(calls, None)
               /\ UNCHANGED <<data, outcome>>
          ELSE /\ Finish(r)
               /\ UNCHANGED calls
    /\ UNCHANGED <<exchange_code, update_interval, market_state, data_before,
                   user_interval, pushed>>
    /\ UNCHANGED aside

\* lines 90-94 with the result of the first fetch returned when the fallback
\* fetch fails
SecondaryUnknown_keeps_primary(ev) ==
    /\ pc = "L91"
    /\ LET r == TryFetch(fetch_instrument_header(None, ev)) IN
       /\ events' = Append(events, ev)
       /\ Finish(IF r.k = "raise" THEN Return(events[1].body) ELSE r)
    /\ UNCHANGED <<exchange_code, update_interval, market_state, calls,
                   data_before, user_interval, pushed>>
    /\ UNCHANGED aside

\* lines 90-94 from the end of the fallback fetch
SecondaryUnknown(ev) ==
    /\ pc = "L91"
    /\ LET r == TryFetch(fetch_instrument_header(None, ev)) IN
       /\ events' = Append(events, ev)
       /\ Finish(r)
    /\ UNCHANGED <<exchange_code, update_interval, market_state, calls,
                   data_before, user_interval, pushed>>
    /\ UNCHANGED aside

\* lines 106-111 from the end of the fetch: market closed, nothing cached
SeedClosed(ev) ==
    /\ pc = "L107"
    /\ LET r == TryFetch(fetch_instrument_header(exchange_code, ev)) IN
       /\ events' = Append(events, ev)
       /\ Finish(r)
    /\ UNCHANGED <<exchange_code, update_interval, market_state, calls,
                   data_before, user_interval, pushed>>
    /\ UNCHANGED aside

\* lines 114-125 with the first result stored in self.data before the
\* fallback fetch is awaited
PrimaryOpen_caches(ev) ==
    /\ pc = "L115"
    /\ LET r == TryFetch(fetch_instrument_header(exchange_code, ev)) IN
       /\ events' = Append(events, ev)
       /\ IF r.k = "return" /\ FallbackOpen(r.v)
          THEN /\ pc' = "L121"
               /\ calls' = Append(calls, None)
               /\ data' = r.v
               /\ UNCHANGED outcome
          ELSE /\ Finish(r)
               /\ UNCHANGED calls
    /\ UNCHANGED <<exchange_code, update_interval, market_state, data_before,
                   user_interval, pushed>>
    /\ UNCHANGED aside

\* lines 114-125 from the end of the first fetch: market open
PrimaryOpen(ev) ==
    /\ pc = "L115"
    /\ LET r == TryFetch(fetch_instrument_header(exchange_code, ev)) IN
       /\ events' = Append(events, ev)
       /\ IF r.k = "return" /\ FallbackOpen(r.v)
          THEN /\ pc' = "L121"
               /\ calls' = Append(calls, None)
               /\ UNCHANGED <<data, outcome>>
          ELSE /\ Finish(r)
               /\ UNCHANGED calls
    /\ UNCHANGED <<exchange_code, update_interval, market_state, data_before,
                   user_interval, pushed>>
    /\ UNCHANGED aside

\* lines 120-125 from the end of the fallback fetch
SecondaryOpen(ev) ==
    /\ pc = "L121"
    /\ LET r == TryFetch(fetch_instrument_header(None, ev)) IN
       /\ events' = Append(events, ev)
       /\ Finish(r)
    /\ UNCHANGED <<exchange_code, update_interval, market_state, calls,
                   data_before, user_interval, pushed>>
    /\ UNCHANGED aside

Next ==
    \/ \E now \in Instants[exchange_code] : BeginRefresh(now)
    \/ \E ev \in TransportEvents : PrimaryUnknown(ev)
    \/ \E ev \in TransportEvents : SecondaryUnknown(ev)
    \/ \E ev \in TransportEvents : SeedClosed(ev)
    \/ \E ev \in TransportEvents : PrimaryOpen(ev)
    \/ \E ev \in TransportEvents : SecondaryOpen(ev)
    \/ \E seconds \in UserIntervals : SetUpdateInterval(seconds)

Spec == Init /\ [][Next]_vars

----------------------------------------------------------------------------
(* The refresh under the one guarantee the code gives for a request: the   *)
(* upstream need not ever answer, but the timeout of line 56 ends the      *)
(* request that it leaves unanswered.                                      *)

\* one exchange code of each kind: absent, without market hours, with market
\* hours, and with the zone that does not resolve
LiveCodes == {None, "XXX", "ETR", "UTC"}

InitLive ==
    /\ Created(LiveCodes)
    /\ hours = NotUsed
    /\ clock = NotUsed
    /\ focus = 1
    /\ peer = NotUsed
    /\ NoWizard
    /\ NoServices
    /\ NoLogos

\* each awaited request ends when its timeout has passed, if not before
TimeoutsFire ==
    /\ WF_vars(\E ev \in TimedOut(REQUEST_TIMEOUT) : PrimaryUnknown(ev))
    /\ WF_vars(\E ev \in TimedOut(REQUEST_TIMEOUT) : SecondaryUnknown(ev))
    /\ WF_vars(\E ev \in TimedOut(REQUEST_TIMEOUT) : SeedClosed(ev))
    /\ WF_vars(\E ev \in TimedOut(REQUEST_TIMEOUT) : PrimaryOpen(ev))
    /\ WF_vars(\E ev \in TimedOut(REQUEST_TIMEOUT) : SecondaryOpen(ev))

SpecLive == InitLive /\ [][Next]_vars /\ TimeoutsFire

----------------------------------------------------------------------------
(* The market calendar on its own: _is_market_open, lines 57-74, applied to *)
(* one entry of a market-hours table at one instant.                       *)

\* the open and close strings a weekday of an entry can hold: a day session,
\* an overnight session, open equal to close, and either or both empty
Sessions ==
    {<< <<9, 0>>, <<17, 30>> >>, << <<22, 0>>, <<6, 0>> >>, << <<8, 0>>, <<8, 0>> >>,
     << <<>>, <<17, 30>> >>, << <<9, 0>>, <<>> >>, << <<>>, <<>> >>}

\* an entry in the schema of market_hours.py: one session mon..fri, one sat and sun
Schedule(tz, week, weekend) ==
    [tz |-> tz,
     open |-> [wd \in WEEKDAYS |-> IF wd <= 4 THEN week[1] ELSE weekend[1]],
     close |-> [wd \in WEEKDAYS |-> IF wd <= 4 THEN week[2] ELSE weekend[2]]]

\* the entries of MARKET_HOURS, and the entries that can be added to it
CalendarEntries ==
    {MARKET_HOURS[code] : code \in DOMAIN MARKET_HOURS}
    \cup {Schedule(tz, week, weekend) :
            tz \in {"Europe/Berlin", "America/New_York", ""},
            week \in Sessions, weekend \in Sessions}

\* the wall-clock times the instants are taken around, as <<hour, minute>>
CalendarTimes ==
    {<<0, 0>>, <<6, 0>>, <<8, 0>>, <<9, 0>>, <<9, 30>>, <<12, 0>>, <<16, 0>>,
     <<17, 30>>, <<17, 31>>, <<20, 0>>, <<22, 0>>, <<23, 0>>}

\* the instants, in UTC, at which an entry of zone tz is queried: every
\* weekday, in and out of daylight saving time, one tick before, at and after
\* each of CalendarTimes on the wall clock of the zone
CalendarInstants ==
    [tz \in {info.tz : info \in CalendarEntries} |->
        UNION {[wd : WEEKDAYS,
                tick : {(Replace(hhmm) - TicksPerMinute * UtcOffset(tz, dst) + dl
                         + TicksPerDay) % TicksPerDay
                        : hhmm \in CalendarTimes, dl \in {-1, 0, 1}},
                dst : {dst}]
               : dst \in BOOLEAN}]

InitCalendar ==
    /\ hours \in CalendarEntries
    /\ clock \in CalendarInstants[hours.tz]
    /\ market_state = None
    /\ exchange_code = NotUsed
    /\ update_interval = DEFAULT_UPDATE_INTERVAL
    /\ user_interval = DEFAULT_UPDATE_INTERVAL
    /\ data = NoData
    /\ pc = "idle"
    /\ calls = <<>>
    /\ events = <<>>
    /\ outcome = [k |-> "none"]
    /\ data_before = NoData
    /\ pushed = FALSE
    /\ focus = 1
    /\ peer = NotUsed
    /\ NoWizard
    /\ NoServices
    /\ NoLogos

\* _is_market_open from line 57 on, for the entry hours at the instant clock
QueryCalendar ==
    /\ market_state = None
    /\ market_state' = MarketOpenAt(hours, clock)
    /\ UNCHANGED <<exchange_code, update_interval, data, pc, calls, events,
                   outcome, data_before, user_interval, pushed>>
    /\ UNCHANGED aside

NextCalendar == QueryCalendar

SpecCalendar == InitCalendar /\ [][NextCalendar]_vars

----------------------------------------------------------------------------
(* Two configuration entries: two coordinators on one event loop.  The     *)
(* variables of a coordinator hold the state of the one the event loop is  *)
(* running (focus); peer holds the state of the other.                     *)

\* the running coordinator, as a record
Running ==
    [exchange_code |-> exchange_code, update_interval |-> update_interval,
     data |-> data, pc |-> pc, market_state |-> market_state, calls |-> calls,
     events |-> events, outcome |-> outcome, data_before |-> data_before,
     user_interval |-> user_interval, pushed |-> pushed]

\* the exchange codes, requests and instants of the two entries
PairCodes == {"XXX", "ETR"}
PairEvents ==
    {[e |-> "TimeoutError"],
     [e |-> "response", status |-> 200,
      body |-> Dict([key \in {"price", "name"} |->
                        IF key = "price" THEN JNum(0) ELSE JStr("ING Groep")])],
     [e |-> "response", status |-> 200,
      body |-> Dict([key \in {"name"} |-> JStr("ING Groep")])]}
PairInstants ==
    {[wd |-> 0, tick |-> Replace(<<10, 0>>), dst |-> FALSE],
     [wd |-> 5, tick |-> Replace(<<10, 0>>), dst |-> FALSE]}

\* the coordinators share self.data, as a class attribute would be shared
Switch_shared_data ==
    /\ focus' = 3 - focus
    /\ peer' = Running
    /\ exchange_code' = peer.exchange_code
    /\ update_interval' = peer.update_interval
    /\ data' = data
    /\ pc' = peer.pc
    /\ market_state' = peer.market_state
    /\ calls' = peer.calls
    /\ events' = peer.events
    /\ outcome' = peer.outcome
    /\ data_before' = peer.data_before
    /\ user_interval' = peer.user_interval
    /\ pushed' = peer.pushed
    /\ UNCHANGED <<hours, clock, wizard, services, logos>>

\* the event loop turns to the other coordinator: each instance has its own
\* config, update_interval and data (__init__, lines 29-41)
Switch ==
    /\ focus' = 3 - focus
    /\ peer' = Running
    /\ exchange_code' = peer.exchange_code
    /\ update_interval' = peer.update_interval
    /\ data' = peer.data
    /\ pc' = peer.pc
    /\ market_state' = peer.market_state
    /\ calls' = peer.calls
    /\ events' = peer.events
    /\ outcome' = peer.outcome
    /\ data_before' = peer.data_before
    /\ user_interval' = peer.user_interval
    /\ pushed' = peer.pushed
    /\ UNCHANGED <<hours, clock, wizard, services, logos>>

\* two entries set up, their coordinators just created
InitPair ==
    /\ Created(PairCodes)
    /\ focus = 1
    /\ \E code \in PairCodes, cfg \in ConfigIntervals :
          peer = [Running EXCEPT
                    !.exchange_code = code,
                    !.update_interval = ConfigGet(cfg, DEFAULT_UPDATE_INTERVAL),
                    !.user_interval = ConfigGet(cfg, DEFAULT_UPDATE_INTERVAL)]
    /\ hours = NotUsed
    /\ clock = NotUsed
    /\ NoWizard
    /\ NoServices
    /\ NoLogos

NextPair ==
    \/ \E now \in PairInstants : BeginRefresh(now)
    \/ \E ev \in PairEvents : PrimaryUnknown(ev)
    \/ \E ev \in PairEvents : SecondaryUnknown(ev)
    \/ \E ev \in PairEvents : SeedClosed(ev)
    \/ \E ev \in PairEvents : PrimaryOpen(ev)
    \/ \E ev \in PairEvents : SecondaryOpen(ev)
    \/ SetUpdateInterval(3600)
    \/ Switch

SpecPair == InitPair /\ [][NextPair]_vars

----------------------------------------------------------------------------
(* config_flow.py and __init__.py: the setup wizard, the options dialog    *)
(* and the setup of a configuration entry with its coordinator.            *)

ISIN_LENGTH == 12

\* a str as the sequence of its characters
Zeros(n) == [i \in 1 .. n |-> "0"]

\* str.strip()
RECURSIVE LStrip(_)
LStrip(str) == IF str # <<>> /\ Head(str) = " " THEN LStrip(Tail(str)) ELSE str
RECURSIVE RStrip(_)
RStrip(str) ==
    IF str # <<>> /\ str[Len(str)] = " " THEN RStrip(SubSeq(str, 1, Len(str) - 1)) ELSE str
Strip(str) == RStrip(LStrip(str))

\* str.upper(), for the letters of the modelled inputs
Upper(str) ==
    [i \in 1 .. Len(str) |->
        CASE str[i] = "d" -> "D" [] str[i] = "e" -> "E" [] OTHER -> str[i]]

\* what the user can type into the ISIN field: blanks, a valid ISIN in lower
\* case between blanks, 11 and 13 characters
IsinInputs ==
    {<<" ", " ">>,
     <<" ", "d", "e">> \o Zeros(10) \o <<" ">>,
     <<"D", "E">> \o Zeros(9),
     <<"D", "E">> \o Zeros(11)}

\* a JSON array
JList(seq) == [j |-> "list", v |-> seq]

\* items of the exchanges endpoint
ItemETR == [exchangeCode |-> "ETR", currencySign |-> "EUR"]
ItemXXX == [exchangeCode |-> "XXX", currencySign |-> "USD"]

\* what a request to the exchanges endpoint can end in
ExchangeEvents ==
    TimedOut(REQUEST_TIMEOUT)
    \cup {[e |-> "response", status |-> 404, body |-> Malformed],
          [e |-> "response", status |-> 200, body |-> Malformed],
          [e |-> "response", status |-> 200, body |-> Dict(<<>>)]}
    \cup {[e |-> "response", status |-> 200, body |-> Dict([key \in {"items"} |-> v])]
          : v \in {JNull, JList(<<>>), JList(<<ItemETR>>), JList(<<ItemXXX, ItemETR>>)}}

\* IngApiClient.fetch_exchanges(isin), given how the request ends
fetch_exchanges(isin, ev) == get_json(ev)

\* data.get("items") or []
ItemsOf(d) ==
    IF "items" \in DOMAIN d.items /\ d.items["items"] # JNull
    THEN d.items["items"].v ELSE <<>>

\* a number of the frontend: n seconds, or half a second more
Num(n, half) == [n |-> n, half |-> half]

\* int(x)
int(x) == x.n

SELECTOR_MIN == 15
SELECTOR_MAX == 3600

\* a number field that takes any number
NumberSelector_unbounded(x) == TRUE

\* NumberSelector(min=15, max=3600, step=5) as the schema applies it to a
\* submitted value: min <= value <= max
NumberSelector(x) ==
    /\ x.n >= SELECTOR_MIN
    /\ x.n < SELECTOR_MAX \/ (x.n = SELECTOR_MAX /\ ~x.half)

\* SelectSelector(options=...) as the schema applies it to a submitted value
SelectSelector(options, value) == value \in options

\* the numbers a user can submit: below, at and above each end of the range
FormNumbers ==
    {Num(14, TRUE), Num(15, TRUE), Num(3600, FALSE), Num(3600, TRUE)}

\* vol.Required(key, default=default): a missing key is given the default
WithDefault(input, key, default) ==
    [k \in DOMAIN input \cup {key} |-> IF k \in DOMAIN input THEN input[k] ELSE default]

\* the dropdowns of the select step, lines 88-140
ExchangeOptions(items) == {items[i].exchangeCode : i \in 1 .. Len(items)}
CurrencyOptions(items) == {items[i].currencySign : i \in 1 .. Len(items)}

\* what the user can submit at the select step
SelectInputs ==
    {[k \in {"exchange_code", "currency_sign"} |->
         IF k = "exchange_code" THEN ex ELSE cur]
     : ex \in {"ETR", "XXX"}, cur \in {"EUR", "USD"}}
    \cup {[k \in {"exchange_code", "currency_sign", "update_interval"} |->
              CASE k = "exchange_code" -> ex [] k = "currency_sign" -> cur [] OTHER -> x]
          : ex \in {"ETR", "XXX"}, cur \in {"EUR", "USD"}, x \in FormNumbers}

\* the schema of the select step (lines 142-171) applied to a submitted input
SelectSchema(items, input) ==
    /\ SelectSelector(ExchangeOptions(items), input["exchange_code"])
    /\ SelectSelector(CurrencyOptions(items), input["currency_sign"])
    /\ NumberSelector(WithDefault(input, "update_interval",
                                  Num(DEFAULT_UPDATE_INTERVAL, FALSE))["update_interval"])

\* what the user can submit in the options dialog
OptionInputs == {<<>>} \cup {[k \in {"update_interval"} |-> x] : x \in FormNumbers}

\* no request made, no exception raised
NoRequest == [e |-> "none"]
NoException == [type |-> "none"]

\* a form shown, with its errors
ShowForm(step_id, errs) ==
    /\ step' = step_id
    /\ errors' = errs
    /\ flow_raised' = NoException

\* the state of the variables of a coordinator while there is none
NoCoordinator ==
    [exchange_code |-> NotUsed, update_interval |-> DEFAULT_UPDATE_INTERVAL,
     data |-> NoData, pc |-> "idle", market_state |-> None, calls |-> <<>>,
     events |-> <<>>, outcome |-> [k |-> "none"], data_before |-> NoData,
     user_interval |-> DEFAULT_UPDATE_INTERVAL, pushed |-> FALSE]

\* the variables of the coordinator become those of c
Become(c) ==
    /\ exchange_code' = c.exchange_code
    /\ update_interval' = c.update_interval
    /\ data' = c.data
    /\ pc' = c.pc
    /\ market_state' = c.market_state
    /\ calls' = c.calls
    /\ events' = c.events
    /\ outcome' = c.outcome
    /\ data_before' = c.data_before
    /\ user_interval' = c.user_interval
    /\ pushed' = c.pushed

\* no entry yet, no wizard begun
InitFlow ==
    /\ step = "none"
    /\ errors = {}
    /\ flow_isin = None
    /\ flow_items = <<>>
    /\ user_input = <<>>
    /\ flow_raised = NoException
    /\ lookup = NoRequest
    /\ entries = {}
    /\ running = <<>>
    /\ setup_pc = "none"
    /\ exchange_code = NotUsed
    /\ update_interval = DEFAULT_UPDATE_INTERVAL
    /\ user_interval = DEFAULT_UPDATE_INTERVAL
    /\ data = NoData
    /\ pc = "idle"
    /\ market_state = None
    /\ calls = <<>>
    /\ events = <<>>
    /\ outcome = [k |-> "none"]
    /\ data_before = NoData
    /\ pushed = FALSE
    /\ hours = NotUsed
    /\ clock = NotUsed
    /\ focus = 1
    /\ peer = NotUsed
    /\ NoServices
    /\ NoLogos

\* a wizard is begun: IsinQuotesConfigFlow() and async_step_user(None)
IsinQuotesConfigFlow ==
    /\ step \in {"none", "create_entry", "abort"}
    /\ ShowForm("user", {})
    /\ flow_isin' = None
    /\ flow_items' = <<>>
    /\ user_input' = <<>>
    /\ lookup' = NoRequest
    /\ UNCHANGED <<entries, running, setup_pc>>
    /\ UNCHANGED <<coordinator, hours, clock, focus, peer, services, logos>>

\* async_step_user(user_input), the request to the exchanges endpoint ending
\* in ev; on success async_step_select(None) shows the select form
async_step_user(typed, ev) ==
    /\ step = "user"
    /\ user_input' = [k \in {"isin"} |-> typed]
    /\ LET isin == Upper(Strip(typed))
           r == fetch_exchanges(isin, ev)
       IN  IF isin = <<>> \/ Len(isin) # ISIN_LENGTH
           THEN /\ ShowForm("user", {<<"isin", "invalid_isin">>})
                /\ lookup' = NoRequest
                /\ UNCHANGED <<flow_isin, flow_items>>
           ELSE /\ lookup' = ev
                /\ IF r.k = "raise" /\ r.exc.type = "IngApiError"
                   THEN /\ ShowForm("user", {<<"base", "cannot_connect">>})
                        /\ UNCHANGED <<flow_isin, flow_items>>
                   ELSE IF r.k = "raise"
                   THEN /\ flow_raised' = r.exc
                        /\ UNCHANGED <<step, errors, flow_isin, flow_items>>
                   ELSE IF ItemsOf(r.v) = <<>>
                   THEN /\ ShowForm("user", {<<"base", "no_exchanges">>})
                        /\ UNCHANGED <<flow_isin, flow_items>>
                   ELSE /\ flow_isin' = isin
                        /\ flow_items' = ItemsOf(r.v)
                        /\ ShowForm("select", {})
    /\ UNCHANGED <<entries, running, setup_pc>>
    /\ UNCHANGED <<coordinator, hours, clock, focus, peer, services, logos>>

\* a select step that creates the entry without looking for its pair
async_step_select_no_abort(input) ==
    /\ step = "select"
    /\ SelectSchema(flow_items, input)
    /\ LET valid == WithDefault(input, "update_interval", Num(DEFAULT_UPDATE_INTERVAL, FALSE))
       IN  /\ user_input' = input
           /\ lookup' = NoRequest
           /\ errors' = {}
           /\ flow_raised' = NoException
           /\ step' = "create_entry"
           /\ entries' = entries \cup
                {[unique_id |-> <<flow_isin, valid["exchange_code"]>>,
                  data |-> [isin |-> flow_isin, exchange_code |-> valid["exchange_code"],
                            currency_sign |-> valid["currency_sign"]],
                  options |-> [k \in {"update_interval"} |->
                                  Num(int(valid["update_interval"]), FALSE)]]}
    /\ UNCHANGED <<flow_isin, flow_items, running, setup_pc>>
    /\ UNCHANGED <<coordinator, hours, clock, focus, peer, services, logos>>

\* async_step_select(user_input), lines 173-201, for an input that the schema
\* of the form accepts
async_step_select(input) ==
    /\ step = "select"
    /\ SelectSchema(flow_items, input)
    /\ LET valid == WithDefault(input, "update_interval", Num(DEFAULT_UPDATE_INTERVAL, FALSE))
           ex_code == valid["exchange_code"]
           interval == int(valid["update_interval"])
           unique_id == <<flow_isin, ex_code>>
       IN  /\ user_input' = input
           /\ lookup' = NoRequest
           /\ errors' = {}
           /\ flow_raised' = NoException
           /\ IF \E e \in entries : e.unique_id = unique_id
              THEN /\ step' = "abort"
                   /\ UNCHANGED entries
              ELSE /\ step' = "create_entry"
                   /\ entries' = entries \cup
                        {[unique_id |-> unique_id,
                          data |-> [isin |-> flow_isin, exchange_code |-> ex_code,
                                    currency_sign |-> valid["currency_sign"]],
                          options |-> [k \in {"update_interval"} |-> Num(interval, FALSE)]]}
    /\ UNCHANGED <<flow_isin, flow_items, running, setup_pc>>
    /\ UNCHANGED <<coordinator, hours, clock, focus, peer, services, logos>>

\* IsinQuotesOptionsFlow.async_step_init(user_input) for the entry e and an
\* input that the schema accepts: user_input becomes the options of the entry;
\* no listener of the entry is registered, so nothing else is told
async_step_init(e, input) ==
    /\ e \in entries
    /\ LET current == IF "update_interval" \in DOMAIN e.options
                      THEN e.options["update_interval"]
                      ELSE Num(DEFAULT_UPDATE_INTERVAL, FALSE)
           valid == WithDefault(input, "update_interval", current)
       IN  /\ NumberSelector(valid["update_interval"])
           /\ entries' = (entries \ {e}) \cup {[e EXCEPT !.options = valid]}
    /\ UNCHANGED <<step, errors, flow_isin, flow_items, user_input, running, setup_pc,
                   flow_raised, lookup>>
    /\ UNCHANGED <<coordinator, hours, clock, focus, peer, services, logos>>

\* {**entry.data, **entry.options}
ConfigOf(e) ==
    [k \in DOMAIN e.data \cup DOMAIN e.options |->
        IF k \in DOMAIN e.options THEN e.options[k] ELSE e.data[k]]

\* async_setup_entry, lines 115-122: the coordinator is created from the
\* entry and its first refresh is awaited
async_setup_entry(e) ==
    /\ e \in entries
    /\ running = <<>>
    /\ running' = e.unique_id
    /\ setup_pc' = "first_refresh"
    /\ LET config == ConfigOf(e)
           interval == IF "update_interval" \in DOMAIN config
                       THEN int(config["update_interval"])
                       ELSE DEFAULT_UPDATE_INTERVAL
       IN  Become([NoCoordinator EXCEPT !.exchange_code = config["exchange_code"],
                                        !.update_interval = interval,
                                        !.user_interval = interval])
    /\ UNCHANGED <<step, errors, flow_isin, flow_items, user_input, entries, flow_raised,
                   lookup>>
    /\ UNCHANGED <<hours, clock, focus, peer, services, logos>>

\* async_setup_entry, lines 123-151, after the first refresh has returned
async_setup_entry_loaded ==
    /\ setup_pc = "first_refresh"
    /\ pc = "idle"
    /\ outcome.k = "return"
    /\ setup_pc' = "loaded"
    /\ UNCHANGED <<step, errors, flow_isin, flow_items, user_input, entries, running,
                   flow_raised, lookup>>
    /\ UNCHANGED <<coordinator, hours, clock, focus, peer, services, logos>>

\* the first refresh has failed: async_config_entry_first_refresh raises
\* ConfigEntryNotReady, the coordinator is dropped and the setup is tried again
async_setup_entry_not_ready ==
    /\ setup_pc = "first_refresh"
    /\ pc = "idle"
    /\ outcome.k = "raise"
    /\ setup_pc' = "none"
    /\ running' = <<>>
    /\ Become(NoCoordinator)
    /\ UNCHANGED <<step, errors, flow_isin, flow_items, user_input, entries, flow_raised,
                   lookup>>
    /\ UNCHANGED <<hours, clock, focus, peer, services, logos>>

\* async_unload_entry: the entry is taken out of hass.data, its coordinator dropped
async_unload_entry ==
    /\ setup_pc = "loaded"
    /\ setup_pc' = "none"
    /\ running' = <<>>
    /\ Become(NoCoordinator)
    /\ UNCHANGED <<step, errors, flow_isin, flow_items, user_input, entries, flow_raised,
                   lookup>>
    /\ UNCHANGED <<hours, clock, focus, peer, services, logos>>

\* the requests of the coordinator of the entry: unanswered, or answered with a price
FlowEvents ==
    TimedOut(REQUEST_TIMEOUT)
    \cup {[e |-> "response", status |-> 200,
           body |-> Dict([key \in {"price"} |-> JNum(0)])]}

\* a refresh begins: the first one of a setup, or a scheduled one of a loaded entry
RefreshDue == (setup_pc = "first_refresh" /\ outcome.k = "none") \/ setup_pc = "loaded"

NextFlow ==
    \/ IsinQuotesConfigFlow
    \/ \E typed \in IsinInputs, ev \in ExchangeEvents : async_step_user(typed, ev)
    \/ \E input \in SelectInputs : async_step_select(input)
    \/ \E e \in entries, input \in OptionInputs : async_step_init(e, input)
    \/ \E e \in entries : async_setup_entry(e)
    \/ async_setup_entry_loaded
    \/ async_setup_entry_not_ready
    \/ async_unload_entry
    \/ \E now \in PairInstants : RefreshDue /\ BeginRefresh(now)
    \/ \E ev \in FlowEvents : PrimaryUnknown(ev)
    \/ \E ev \in FlowEvents : SeedClosed(ev)
    \/ \E ev \in FlowEvents : PrimaryOpen(ev)

SpecFlow == InitFlow /\ [][NextFlow]_vars

----------------------------------------------------------------------------
(* __init__.py and sensor.py: the entries in hass.data, the global history *)
(* entity and the fetch_history service                                    *)

\* the entry ids of the configuration entries
EntryIds == {"A", "B"}

\* a Python dict as the sequence of its items in the order of insertion
DictKeys(d) == {d[i].key : i \in 1 .. Len(d)}
DictGet(d, key, default) ==
    IF key \in DictKeys(d)
    THEN d[CHOOSE i \in 1 .. Len(d) : d[i].key = key].value ELSE default
DictSet(d, key, value) ==
    IF key \in DictKeys(d)
    THEN [i \in 1 .. Len(d) |->
             IF d[i].key = key THEN [key |-> key, value |-> value] ELSE d[i]]
    ELSE Append(d, [key |-> key, value |-> value])
DictPop(d, key) == SelectSeq(d, LAMBDA it : it.key # key)

\* the i-th GlobalIsinQuotesHistorySensor object that was created
Sensor(i) == [t |-> "sensor", id |-> i]

\* {"coordinator": coordinator, "history_entity": hist}
Store(hist) == [t |-> "store", history_entity |-> hist]

\* chart data of the API: one or two instruments, or a dict without any
ChartBodies ==
    {Dict([key \in {"instruments"} |-> JList(<<JNum(0)>>)]),
     Dict([key \in {"instruments"} |-> JList(<<JNum(0), JNum(1)>>)]),
     Dict(<<>>)}

\* what a request to the chart endpoint can end in
ChartEvents ==
    TimedOut(REQUEST_TIMEOUT)
    \cup {[e |-> "ClientError"],
          [e |-> "response", status |-> 404, body |-> Malformed],
          [e |-> "response", status |-> 200, body |-> Malformed]}
    \cup {[e |-> "response", status |-> 200, body |-> b] : b \in ChartBodies}

\* IngApiClient.fetch_chart_data(...), given how the request ends
fetch_chart_data(ev) == get_json(ev)

\* the history file: missing, holding the JSON text of v, or holding text
\* that is no JSON
JsonFile(v) == [t |-> "json", v |-> v]
Truncated == [t |-> "truncated"]

\* _load_json_if_exists(hass, path)
load_json_if_exists(file) == IF file.t = "json" THEN file.v ELSE NoData

\* how path.write_text can end in _save_json: the text written; OSError
\* before the file is opened; OSError after it was opened and emptied
SaveOutcomes == {"written", "not_opened", "emptied"}

\* the file after _save_json(hass, path, payload) ended in how
save_json(file, payload, how) ==
    CASE how = "written" -> JsonFile(payload)
      [] how = "not_opened" -> file
      [] OTHER -> Truncated

\* _find_history_entity(): the first truthy history_entity of the values of
\* hass.data[DOMAIN]; a value without get() raises AttributeError
RECURSIVE find_history_entity(_)
find_history_entity(d) ==
    IF d = <<>> THEN Return(NoData)
    ELSE IF Head(d).value.t # "store" THEN Raise([type |-> "AttributeError"])
    ELSE IF Head(d).value.history_entity.t # "None"
    THEN Return(Head(d).value.history_entity)
    ELSE find_history_entity(Tail(d))

\* _make_sensor_payload(data_obj, meta_dict), the meta reduced to its source
make_sensor_payload(data_obj) ==
    [instruments |->
         IF data_obj.t = "dict" /\ "instruments" \in DOMAIN data_obj.items
            /\ data_obj.items["instruments"].j = "list"
         THEN data_obj.items["instruments"].v ELSE <<>>,
     meta |-> [source |-> "live"]]

\* GlobalIsinQuotesHistorySensor.set_payload(payload) of the sensor hist
set_payload(hist, payload) == [sensors EXCEPT ![hist.id] = payload]

\* no call of the service yet
NoCall ==
    [seq |-> 0, request |-> NoRequest, result |-> [k |-> "none"], fired |-> FALSE,
     save |-> "none"]

\* Home Assistant started, no entry set up, no history file
InitHistory ==
    /\ hass_data = <<>>
    /\ sensors = <<>>
    /\ setup_of = [id \in EntryIds |-> "none"]
    /\ history_file = NoData
    /\ service = NoCall
    /\ exchange_code = NotUsed
    /\ update_interval = DEFAULT_UPDATE_INTERVAL
    /\ user_interval = DEFAULT_UPDATE_INTERVAL
    /\ data = NoData
    /\ pc = "idle"
    /\ market_state = None
    /\ calls = <<>>
    /\ events = <<>>
    /\ outcome = [k |-> "none"]
    /\ data_before = NoData
    /\ pushed = FALSE
    /\ hours = NotUsed
    /\ clock = NotUsed
    /\ focus = 1
    /\ peer = NotUsed
    /\ NoWizard
    /\ NoLogos

\* __init__.async_setup_entry of the entry id, lines 123-138, after the first
\* refresh: the store of the entry is put into hass.data and the services
\* are registered
init_async_setup_entry(id) ==
    /\ setup_of[id] = "none"
    /\ hass_data' = DictSet(hass_data, id, Store(NoData))
    /\ setup_of' = [setup_of EXCEPT ![id] = "forwarded"]
    /\ UNCHANGED <<sensors, history_file, service>>
    /\ UNCHANGED <<coordinator, hours, clock, focus, peer, wizard, logos>>

\* sensor.async_setup_entry of the entry id, lines 77-83
sensor_async_setup_entry(id) ==
    /\ setup_of[id] = "forwarded"
    /\ LET found == DictGet(hass_data, "global_history_entity", NoData)
           create == found.t = "None"
           global_hist == IF create THEN Sensor(Len(sensors) + 1) ELSE found
           registered == IF create
                         THEN DictSet(hass_data, "global_history_entity", global_hist)
                         ELSE hass_data
       IN  /\ sensors' = IF create THEN Append(sensors, NoData) ELSE sensors
           /\ hass_data' = DictSet(registered, id, Store(global_hist))
    /\ setup_of' = [setup_of EXCEPT ![id] = "loaded"]
    /\ UNCHANGED <<history_file, service>>
    /\ UNCHANGED <<coordinator, hours, clock, focus, peer, wizard, logos>>

\* __init__.async_unload_entry of the entry id, lines 154-159, the platforms
\* unloaded
init_async_unload_entry(id) ==
    /\ setup_of[id] = "loaded"
    /\ hass_data' = DictPop(hass_data, id)
    /\ setup_of' = [setup_of EXCEPT ![id] = "none"]
    /\ UNCHANGED <<sensors, history_file, service>>
    /\ UNCHANGED <<coordinator, hours, clock, focus, peer, wizard, logos>>

\* the fetch_history service is registered by the first setup and stays
ServiceRegistered == hass_data # <<>>

\* _handle_fetch_history(call), lines 301-438, the request for the chart data
\* ending in ev and the saving of the file, if it comes to it, in how
handle_fetch_history(ev, how) ==
    /\ ServiceRegistered
    /\ LET cached == load_json_if_exists(history_file)
           found == find_history_entity(hass_data)
           hist == found.v
           callable == hist.t = "sensor"
           r == fetch_chart_data(ev)
           call == [NoCall EXCEPT !.seq = 1 - service.seq]
       IN  IF found.k = "raise"
           THEN /\ service' = [call EXCEPT !.result = found]
                /\ UNCHANGED <<sensors, history_file>>
           ELSE IF r.k = "raise"
                   /\ r.exc.type \in {"IngApiError", "TimeoutError", "ClientError"}
           THEN /\ sensors' = IF cached.t # "None" /\ callable
                              THEN set_payload(hist, make_sensor_payload(cached))
                              ELSE sensors
                /\ service' = [call EXCEPT !.request = ev, !.result = Return(NoData)]
                /\ UNCHANGED history_file
           ELSE IF r.k = "raise"
           THEN /\ service' = [call EXCEPT !.request = ev, !.result = r]
                /\ UNCHANGED <<sensors, history_file>>
           ELSE /\ history_file' = save_json(history_file, r.v, how)
                /\ sensors' = IF callable
                              THEN set_payload(hist, make_sensor_payload(r.v))
                              ELSE sensors
                /\ service' = [call EXCEPT !.request = ev, !.result = Return(NoData),
                                           !.fired = TRUE, !.save = how]
    /\ UNCHANGED <<hass_data, setup_of>>
    /\ UNCHANGED <<coordinator, hours, clock, focus, peer, wizard, logos>>

NextHistory ==
    \/ \E id \in EntryIds : init_async_setup_entry(id)
    \/ \E id \in EntryIds : sensor_async_setup_entry(id)
    \/ \E id \in EntryIds : init_async_unload_entry(id)
    \/ \E ev \in ChartEvents, how \in SaveOutcomes : handle_fetch_history(ev, how)

SpecHistory == InitHistory /\ [][NextHistory]_vars

----------------------------------------------------------------------------
(* logo_cache.py: ensure_logo_svg *)

HTTP_TIMEOUT_S == 20

\* the ISINs that logos are asked for, and the callers that ask
Isins == {"DE0000000000", "US0000000000"}
Callers == {1, 2}

\* f"{STORAGE_BASE}/{isin}.svg"
Url(isin) == [t |-> "url", isin |-> isin]

\* bytes.startswith(prefix) and the operator in of str
StartsWith(text, prefix) ==
    Len(text) >= Len(prefix) /\ SubSeq(text, 1, Len(prefix)) = prefix
Contains(text, part) ==
    \E i \in 1 .. Len(text) - Len(part) + 1 : SubSeq(text, i, i + Len(part) - 1) = part

\* "<svg"
SVG_TAG == <<"<", "s", "v", "g">>

\* response bodies: {"svg": "<svg>"}, {"svg": "x"}, {"v": 1}, {x, " <svg>"
\* and <p>; a JSON text is written token by token, other text character by
\* character
BodyJsonSvg == <<"{", "svg", ":", "<svg>", "}">>
BodyJsonText == <<"{", "svg", ":", "x", "}">>
BodyLottie == <<"{", "v", ":", "1", "}">>
BodyBroken == <<"{", "x">>
BodyRawSvg == <<" ", "<", "s", "v", "g", ">">>
BodyHtml == <<"<", "p", ">">>

\* json.loads(data.decode("utf-8")) of the modelled bodies; a text that is no
\* JSON raises json.JSONDecodeError
Invalid == [t |-> "invalid"]
json_loads(text) ==
    CASE text = BodyJsonSvg -> Dict([key \in {"svg"} |-> JStr(SVG_TAG \o <<">">>)])
      [] text = BodyJsonText -> Dict([key \in {"svg"} |-> JStr(<<"x">>)])
      [] text = BodyLottie -> Dict([key \in {"v"} |-> JNum(1)])
      [] OTHER -> Invalid

\* what session.get(url, timeout=HTTP_TIMEOUT_S) and resp.read() can end in:
\* every body without a Content-Type, three of them declared as JSON
LogoEvents ==
    TimedOut(HTTP_TIMEOUT_S)
    \cup {[e |-> "ClientError"]}
    \cup {[e |-> "response", ctype |-> "", body |-> b]
          : b \in {BodyJsonSvg, BodyJsonText, BodyLottie, BodyBroken, BodyRawSvg, BodyHtml}}
    \cup {[e |-> "response", ctype |-> "application/json", body |-> b]
          : b \in {BodyLottie, BodyRawSvg, BodyHtml}}

\* a logo file with its text; the text that export_svg writes for frame 0
LogoFile(text) == [t |-> "file", text |-> text]
Exported == <<"frame 0">>

\* the file after a write of text ended in how
write_text(file, text, how) ==
    CASE how = "written" -> LogoFile(text)
      [] how = "not_opened" -> file
      [] OTHER -> Truncated

\* svg_path.exists() is never true
exists_never(file) == FALSE

\* svg_path.exists()
exists(file) == file.t # "None"

\* a call of ensure_logo_svg that has not been made
NoLogoCall ==
    [pc |-> "idle", seq |-> 0, isin |-> None, request |-> NoRequest,
     result |-> [k |-> "none"]]

\* no logo file yet, no call begun
InitLogo ==
    /\ logo_files = [isin \in Isins |-> NoData]
    /\ logo_call = [c \in Callers |-> NoLogoCall]
    /\ exchange_code = NotUsed
    /\ update_interval = DEFAULT_UPDATE_INTERVAL
    /\ user_interval = DEFAULT_UPDATE_INTERVAL
    /\ data = NoData
    /\ pc = "idle"
    /\ market_state = None
    /\ calls = <<>>
    /\ events = <<>>
    /\ outcome = [k |-> "none"]
    /\ data_before = NoData
    /\ pushed = FALSE
    /\ hours = NotUsed
    /\ clock = NotUsed
    /\ focus = 1
    /\ peer = NotUsed
    /\ NoWizard
    /\ NoServices

\* ensure_logo_svg(hass, session, url, isin) of the caller c, lines 47-58:
\* up to the return of a cache hit or to the await of session.get
ensure_logo_svg(c, isin) ==
    /\ logo_call[c].pc = "idle"
    /\ logo_call' =
         [logo_call EXCEPT ![c] =
            IF exists(logo_files[isin])
            THEN [NoLogoCall EXCEPT !.seq = 1 - logo_call[c].seq, !.isin = isin,
                                    !.result = Return(Url(isin))]
            ELSE [NoLogoCall EXCEPT !.seq = 1 - logo_call[c].seq, !.isin = isin,
                                    !.pc = "get"]]
    /\ UNCHANGED logo_files
    /\ UNCHANGED <<coordinator, hours, clock, focus, peer, wizard, services>>

\* ensure_logo_svg of the caller c, lines 58-99: the download ending in ev; a
\* write of the file or the rendering of the Lottie frame, if it comes to
\* it, ending in how
ensure_logo_svg_download(c, ev, how) ==
    /\ logo_call[c].pc = "get"
    /\ LET isin == logo_call[c].isin
           file == logo_files[isin]
           done(result) == [logo_call EXCEPT ![c] = [@ EXCEPT !.pc = "idle",
                                                             !.request = ev,
                                                             !.result = result]]
           written(text) ==
               /\ logo_files' = [logo_files EXCEPT ![isin] = write_text(file, text, how)]
               /\ logo_call' = done(IF how = "written" THEN Return(Url(isin))
                                    ELSE Raise([type |-> "OSError"]))
           nothing ==
               /\ logo_call' = done(Return(NoData))
               /\ UNCHANGED logo_files
       IN  IF ev.e # "response" THEN nothing
           ELSE IF ev.ctype = "application/json" \/ Head(ev.body) \in {"{", "["}
           THEN LET obj == json_loads(ev.body)
                IN  IF obj.t = "dict" /\ "svg" \in DOMAIN obj.items
                       /\ obj.items["svg"].j = "str"
                    THEN IF Contains(obj.items["svg"].v, SVG_TAG)
                         THEN written(obj.items["svg"].v)
                         ELSE nothing
                    ELSE IF obj # Invalid
                    THEN /\ logo_files' =
                              [logo_files EXCEPT ![isin] = write_text(file, Exported, how)]
                         /\ logo_call' = done(IF how = "written" THEN Return(Url(isin))
                                              ELSE Return(NoData))
                    ELSE nothing
           ELSE IF StartsWith(LStrip(ev.body), SVG_TAG) THEN written(ev.body)
           ELSE nothing
    /\ UNCHANGED <<coordinator, hours, clock, focus, peer, wizard, services>>

NextLogo ==
    \/ \E c \in Callers, isin \in Isins : ensure_logo_svg(c, isin)
    \/ \E c \in Callers, ev \in LogoEvents, how \in SaveOutcomes :
          ensure_logo_svg_download(c, ev, how)

SpecLogo == InitLogo /\ [][NextLogo]_vars

----------------------------------------------------------------------------
(* Vocabulary of the properties *)

\* a refresh has begun in this behaviour
Refreshed == outcome.k # "none"

\* no refresh is in flight, and one has ended
AtRest == pc = "idle" /\ Refreshed

Mapped == exchange_code \in DOMAIN MARKET_HOURS
Unmapped == exchange_code = None \/ exchange_code = "" \/ exchange_code \notin DOMAIN MARKET_HOURS

\* the request ended in a response with status 200 and a JSON object as body
Succeeded(ev) == ev.e = "response" /\ ev.status = 200 /\ ev.body # Malformed

\* the request ended in a connection error, a timeout or a non-success status
FailedNetOrHttp(ev) == ev.e \in {"TimeoutError", "ClientError"} \/ (ev.e = "response" /\ ev.status # 200)

\* the classified error of such a request
Classified(ev) ==
    IF ev.e = "response" THEN [type |-> "IngApiError", status |-> ev.status]
    ELSE [type |-> "IngApiError", note |-> "Network error"]

\* a successful response whose price is absent or null
LacksPrice(ev) ==
    /\ Succeeded(ev)
    /\ \/ "price" \notin DOMAIN ev.body.items
       \/ ev.body.items["price"] = JNull

LastEvent == events[Len(events)]

----------------------------------------------------------------------------
(* C1 *)

\* C1: when a refresh runs while the market is Closed and a snapshot is cached,
\* it makes no Quote Source call, returns exactly the cached snapshot and
\* leaves the cached snapshot unchanged.
C1_ClosedCachedSkipsFetch ==
    (Refreshed /\ market_state = "False" /\ data_before # NoData)
        => /\ pc = "idle"
           /\ calls = <<>>
           /\ events = <<>>
           /\ outcome = Return(data_before)
           /\ data = data_before

C1_Witness ==
    /\ AtRest /\ Mapped
    /\ market_state = "False"
    /\ data_before # NoData
    /\ outcome.k = "return"
    /\ calls = <<>>

----------------------------------------------------------------------------
(* C2 *)

\* C2: when a refresh runs while the market is Closed and no snapshot is
\* cached, it makes exactly one Quote Source call, with the configured exchange
\* id, makes no fallback call even when the result lacks a price, and on
\* success that one result is returned and becomes the cached snapshot.
C2_ClosedSeedsOnce ==
    (Refreshed /\ market_state = "False" /\ data_before = NoData)
        => /\ calls = <<exchange_code>>
           /\ pc \in {"idle", "L107"}
           /\ pc = "L107" => events = <<>>
           /\ pc = "idle" =>
                /\ Len(events) = 1
                /\ Succeeded(events[1]) =>
                     /\ outcome = Return(events[1].body)
                     /\ data = events[1].body

C2_Witness ==
    /\ AtRest
    /\ market_state = "False"
    /\ data_before = NoData
    /\ Len(calls) = 1
    /\ Len(events) = 1
    /\ LacksPrice(events[1])
    /\ events[1].body.items # <<>>
    /\ data = events[1].body

----------------------------------------------------------------------------
(* C3 *)

\* C3: when a refresh runs while the market is Open and the primary fetch
\* succeeds with a result whose price is absent or null (whatever else the
\* result holds, nothing at all included), the refresh makes a second call
\* with no exchange id, and what it returns and caches is the second result.
C3_OpenFallbackOnMissingPrice ==
    (market_state = "True" /\ Len(events) >= 1 /\ LacksPrice(events[1]))
        => /\ Len(calls) = 2
           /\ calls[1] = exchange_code
           /\ calls[2] = None
           /\ (pc = "idle" /\ Succeeded(LastEvent)) =>
                /\ Len(events) = 2
                /\ outcome = Return(events[2].body)
                /\ data = events[2].body

----------------------------------------------------------------------------
(* C4 *)

\* C4: in every market state, when a Quote Source call of a refresh (primary,
\* seed or fallback) fails with a network or HTTP error, the refresh fails
\* with that classified error and the snapshot cached before the refresh is
\* still the cached snapshot.
C4_FetchFailurePropagates ==
    \A i \in 1 .. Len(events) :
        FailedNetOrHttp(events[i])
            => /\ i = Len(events)
               /\ pc = "idle"
               /\ outcome = Raise(UpdateFailed(Classified(events[i])))
               /\ data = data_before

C4_Witness ==
    /\ AtRest
    /\ Len(events) = 2
    /\ events[2].e = "response" /\ events[2].status = 500
    /\ data_before # NoData
    /\ data = data_before
    /\ outcome.k = "raise"

----------------------------------------------------------------------------
(* C5 *)

\* C5: the fallback call is made if and only if the primary call of an
\* Unknown-state or Open-state refresh succeeded and its result lacks a usable
\* price; a primary call that fails, or that succeeds with a price that is
\* present and not null (zero included), ends the refresh after one call.
C5_FallbackIffPriceMissing ==
    (market_state \in {None, "True"} /\ Len(events) >= 1)
        => (Len(calls) = 2 <=> LacksPrice(events[1]))

----------------------------------------------------------------------------
(* C6 *)

----------------------------------------------------------------------------
(* C7 *)

\* C7: for an exchange code that is absent or has no market hours, no refresh
\* changes the poll interval: it always equals the configured value or the
\* value last given to set_update_interval.
C7_UnknownKeepsInterval ==
    Unmapped => update_interval = user_interval

C7_Witness ==
    /\ AtRest /\ Unmapped
    /\ outcome.k = "return"
    /\ update_interval = 3600
    /\ data_before # NoData

----------------------------------------------------------------------------
(* C8 *)

\* C8: for an exchange code without market hours every refresh makes a live
\* call with the configured exchange id, also when a snapshot is cached; what
\* a refresh returns is the result of its last call, never the cached
\* snapshot in place of a failed call.
C8_UnknownAlwaysFetches ==
    (Refreshed /\ Unmapped)
        => /\ Len(calls) >= 1
           /\ calls[1] = exchange_code
           /\ pc = "idle" =>
                /\ Len(events) = Len(calls)
                /\ ~Succeeded(LastEvent) => outcome.k = "raise"
                /\ outcome.k = "return" => outcome.v = LastEvent.body

C8_Witness ==
    /\ AtRest /\ Unmapped
    /\ data_before # NoData
    /\ Len(events) = 1
    /\ FailedNetOrHttp(events[1])
    /\ outcome.k = "raise"

----------------------------------------------------------------------------
(* C9 *)

\* C9: for an exchange code that is absent, empty or not a key of the table,
\* the market state computed at any instant is None (unknown), never open and
\* never closed.
C9_UnmappedIsUnknown ==
    (Refreshed /\ Unmapped) => market_state = None

C9_Witness ==
    /\ Refreshed
    /\ exchange_code = ""
    /\ market_state = None
    /\ pc = "L85"

----------------------------------------------------------------------------
(* C10 *)

\* C10: for an exchange code that is a key of the table, the market state
\* computed at any instant is open or closed: the computation never returns
\* unknown and never fails, resolving the time zone included.
C10_MappedIsOpenOrClosed ==
    (Refreshed /\ Mapped) => market_state \in {"True", "False"}

----------------------------------------------------------------------------
(* Vocabulary of the calendar properties *)

\* the calendar has been queried
Queried == market_state # None

\* the zone an entry stands for: the default zone for an empty tz
ZoneOf(info) ==
    IF info.tz = "" THEN "UTC"
    ELSE IF info.tz = "Amerika/New_York" THEN "America/New_York"
    ELSE info.tz

\* the weekday and the time of day on the wall clock of the entry's zone
LocalDay == NowLocal(clock, ZoneOf(hours)).wd
LocalTick == NowLocal(clock, ZoneOf(hours)).tick

\* the open and close entries of the local weekday
OpenToday == hours.open[LocalDay]
CloseToday == hours.close[LocalDay]

\* "HH:MM" as a time of day
TimeOfDay(hhmm) == (60 * hhmm[1] + hhmm[2]) * TicksPerMinute

BothGiven == OpenToday # <<>> /\ CloseToday # <<>>

----------------------------------------------------------------------------
(* C11 *)

\* C11: for an entry of the table and a weekday whose open time is strictly
\* before its close time, the market state is Open exactly when
\* open <= local time <= close in the zone of the entry, both ends included,
\* and Closed at every other local time.
C11_DaySessionInclusive ==
    (Queried /\ BothGiven /\ TimeOfDay(OpenToday) < TimeOfDay(CloseToday))
        => market_state =
              IF TimeOfDay(OpenToday) <= LocalTick /\ LocalTick <= TimeOfDay(CloseToday)
              THEN "True" ELSE "False"

----------------------------------------------------------------------------
(* C12 *)

\* C12: for an entry of the table and a weekday whose close time is at or
\* before its open time, the market state is Open exactly when
\* local time >= open or local time <= close, and Closed otherwise.
C12_OvernightSession ==
    (Queried /\ BothGiven /\ TimeOfDay(CloseToday) <= TimeOfDay(OpenToday))
        => market_state =
              IF LocalTick >= TimeOfDay(OpenToday) \/ LocalTick <= TimeOfDay(CloseToday)
              THEN "True" ELSE "False"

C12_Witness ==
    /\ Queried
    /\ OpenToday = <<22, 0>> /\ CloseToday = <<6, 0>>
    /\ LocalTick = TimeOfDay(<<23, 0>>)
    /\ market_state = "True"

----------------------------------------------------------------------------
(* C13 *)

\* C13: for an entry of the table, if the open string or the close string of
\* the local weekday is empty, the market state is Closed at every local time
\* of that day.
C13_EmptyDayClosed ==
    (Queried /\ ~BothGiven) => market_state = "False"

----------------------------------------------------------------------------
(* C14 *)

\* C14: every refresh either returns a snapshot or fails with a classified
\* error (HTTP error with its status, network error, parse error for a
\* malformed body): whatever the request of a fetch ends in, the failure that
\* leaves the refresh is the coordinator's UpdateFailed carrying that error.
C14_OnlyClassifiedFailures ==
    (AtRest /\ events # <<>> /\ outcome.k = "raise")
        => /\ outcome.exc.type = "UpdateFailed"
           /\ outcome.exc.cause.type = "IngApiError"

----------------------------------------------------------------------------
(* C15 *)

\* C15: a refresh makes at most two Quote Source calls; the first is made with
\* the configured exchange id and the second with none, the second only after
\* the first has succeeded, and no call follows a failed one.
C15_AtMostTwoCalls ==
    /\ Len(calls) <= 2
    /\ Len(events) <= Len(calls)
    /\ Len(calls) >= 1 => calls[1] = exchange_code
    /\ Len(calls) = 2 => (calls[2] = None /\ Len(events) >= 1)
    /\ \A i \in 1 .. Len(events) : ~Succeeded(events[i]) => Len(calls) = i

C15_Witness ==
    /\ AtRest
    /\ exchange_code = "ETR"
    /\ calls = <<"ETR", None>>
    /\ Len(events) = 2
    /\ ~Succeeded(events[2])

----------------------------------------------------------------------------
(* C16 *)

\* C16: set_update_interval(seconds) sets the poll interval to seconds and
\* changes nothing else: no Quote Source call is made, no refresh begins or
\* ends, and the cached snapshot stays as it is.
C16_SetIntervalFrame ==
    [][(user_interval' # user_interval \/ (pushed' /\ ~pushed))
          => /\ update_interval' = user_interval'
             /\ UNCHANGED <<exchange_code, data, pc, market_state, calls, events,
                            outcome, data_before>>]_vars

C16_Witness ==
    /\ pushed
    /\ pc = "L115"
    /\ calls = <<exchange_code>>
    /\ data # NoData
    /\ update_interval = 3600
    /\ market_state = "True"

----------------------------------------------------------------------------
(* C17 *)

----------------------------------------------------------------------------
(* C18 *)

\* C18: while a refresh is suspended (the primary, seed or fallback call in
\* flight) the cached snapshot is the one cached before the refresh began, so a
\* refresh abandoned there leaves it unchanged.
C18_NoWriteWhileSuspended ==
    pc # "idle" => data = data_before

C18_Witness ==
    /\ pc = "L121"
    /\ data_before # NoData
    /\ Len(events) = 1
    /\ events[1].body # data_before
    /\ data = data_before

----------------------------------------------------------------------------
(* C19 *)

\* C19: once the coordinator holds a snapshot it holds one in every later
\* state; the snapshot changes only when a refresh ends by returning the result
\* of its last fetch, and then it is that result as a whole; a refresh that
\* fails or is answered from the cache leaves it as it was.
C19_SnapshotReplacedWhole ==
    [][/\ data # NoData => data' # NoData
       /\ data' # data =>
            /\ pc # "idle" /\ pc' = "idle"
            /\ outcome'.k = "return"
            /\ events' # <<>>
            /\ Succeeded(events'[Len(events')])
            /\ data' = events'[Len(events')].body
       /\ (pc' = "idle" /\ outcome'.k = "return") => data' = outcome'.v
       /\ (pc' = "idle" /\ outcome'.k = "raise") => data' = data]_vars

C19_Witness ==
    /\ AtRest
    /\ outcome.k = "return"
    /\ events # <<>>
    /\ data_before # NoData
    /\ "name" \in DOMAIN data_before.items
    /\ "name" \notin DOMAIN data.items
    /\ data = LastEvent.body

----------------------------------------------------------------------------
(* C20 *)

\* the state of coordinator i of two
StateOf(i) == IF focus = i THEN Running ELSE peer

\* C20: two coordinators are independent under any interleaving of their
\* refreshes: the cached snapshot, the poll interval, the position and the
\* outcome of the refresh of a coordinator change only in a step of that
\* coordinator itself, never in a refresh step or a set_update_interval of the
\* other, nor when the event loop turns from one to the other.
C20_CoordinatorsIndependent ==
    [][\A i \in {1, 2} :
          (focus # i \/ focus' # i) => StateOf(i)' = StateOf(i)]_vars

C20_Witness ==
    /\ focus = 2
    /\ pc = "L115"
    /\ peer.pc = "L91"
    /\ peer.data # NoData
    /\ data # NoData
    /\ data # peer.data
    /\ update_interval # peer.update_interval

----------------------------------------------------------------------------
(* C21 *)

\* C21: the Unknown branch and the Open branch of a refresh fetch and fall
\* back alike: for the same exchange code and the same sequence of responses
\* both make the calls, and return the snapshot or raise the failure, that
\* lines 84-94 make of that sequence; the open branch differs in nothing.
C21_OpenBranchAsUnknownBranch ==
    (Refreshed /\ market_state \in {None, "True"})
        => LET same == UnknownBranch(exchange_code, events) IN
           /\ calls = same.calls
           /\ outcome = same.result
           /\ pc = "idle" <=> same.result.k # "pending"
           /\ pc = "idle" => data = RefreshedData(same.result, data_before)

C21_Witness ==
    /\ AtRest
    /\ market_state = "True"
    /\ Len(events) = 2
    /\ LacksPrice(events[1])
    /\ Succeeded(events[2])
    /\ outcome = Return(events[2].body)
    /\ data_before # NoData

----------------------------------------------------------------------------
(* C22 *)

\* C22: every refresh terminates, by returning a snapshot or by failing: each
\* Quote Source call is made with a timeout, so a call the upstream never
\* answers ends as a network error, which fails the refresh, and no refresh
\* stays suspended in a call for ever.
C22_RefreshTerminates ==
    /\ [](\A i \in 1 .. Len(events) :
             events[i].e = "TimeoutError"
                => outcome = Raise(UpdateFailed(IngApiError_network)))
    /\ (pc # "idle") ~> (pc = "idle" /\ outcome.k \in {"return", "raise"})

C22_Witness ==
    /\ AtRest
    /\ Len(calls) = 2
    /\ Len(events) = 2
    /\ events[2].e = "TimeoutError"
    /\ outcome = Raise(UpdateFailed(IngApiError_network))

----------------------------------------------------------------------------
(* Vocabulary of the properties of the wizard and the entries *)

\* twice the value of a number of the frontend
Doubled(x) == 2 * x.n + (IF x.half THEN 1 ELSE 0)

\* the entry that the coordinator was created for
RunningEntry == CHOOSE e \in entries : e.unique_id = running

\* a step of the wizard's ISIN form has been handled
UserStepHandled ==
    /\ step = "user"
    /\ <<step, errors, flow_isin, flow_items, user_input, flow_raised, lookup>>' #
           <<step, errors, flow_isin, flow_items, user_input, flow_raised, lookup>>

----------------------------------------------------------------------------
(* C23 *)

\* C23: the poll interval a coordinator is created with from a configuration
\* entry lies within [15, 3600] seconds: every interval that the wizard or the
\* options dialog stores in an entry lies in that range, the coordinator
\* takes its whole seconds, and a wizard input without an interval stores 60.
C23_BaseIntervalInRange ==
    [][/\ \A e \in entries' :
            /\ "update_interval" \in DOMAIN e.options
            /\ 2 * 15 <= Doubled(e.options["update_interval"])
            /\ Doubled(e.options["update_interval"]) <= 2 * 3600
       /\ running' # <<>> =>
            /\ 15 <= user_interval' /\ user_interval' <= 3600
            /\ running = <<>> =>
                 /\ update_interval' = user_interval'
                 /\ 2 * user_interval' <= Doubled(RunningEntry'.options["update_interval"])
                 /\ Doubled(RunningEntry'.options["update_interval"]) < 2 * user_interval' + 2
       /\ (step = "select" /\ step' = "create_entry"
           /\ "update_interval" \notin DOMAIN user_input')
            => \E e \in entries' \ entries : e.options["update_interval"] = Num(60, FALSE)]_vars

C23_Witness ==
    /\ running # <<>>
    /\ setup_pc = "loaded"
    /\ RunningEntry.options["update_interval"] = Num(15, TRUE)
    /\ user_interval = 15
    /\ \E e \in entries : e.options["update_interval"] = Num(3600, FALSE)

----------------------------------------------------------------------------
(* C24 *)

\* C24: when the options dialog changes the interval of an entry that is set
\* up, the running coordinator is told: for an exchange without market hours
\* its poll interval is the whole seconds of the interval in the options of
\* its entry.
C24_OptionsChangePushed ==
    (setup_pc = "loaded" /\ running # <<>> /\ exchange_code = "XXX")
        => update_interval = int(RunningEntry.options["update_interval"])

----------------------------------------------------------------------------
(* C30 *)

\* C30: a step of the wizard's ISIN form leads to the select form only when
\* the entered ISIN, trimmed and in upper case, has 12 characters and the
\* lookup of the exchanges succeeded with at least one item; otherwise the
\* ISIN form is shown again with invalid_isin, cannot_connect or no_exchanges
\* respectively; and no such step creates a configuration entry.
C30_IsinStepAdvancesOnlyWhenValid ==
    [][UserStepHandled =>
          LET isin == Upper(Strip(user_input'["isin"]))
              well_formed == Len(isin) = 12
              found == /\ well_formed
                       /\ Succeeded(lookup')
                       /\ ItemsOf(lookup'.body) # <<>>
          IN  /\ step' = "select" <=> found
              /\ ~found =>
                   /\ step' = "user"
                   /\ flow_raised' = NoException
                   /\ errors' = {IF ~well_formed THEN <<"isin", "invalid_isin">>
                                 ELSE IF ~Succeeded(lookup') THEN <<"base", "cannot_connect">>
                                 ELSE <<"base", "no_exchanges">>}
              /\ entries' = entries]_vars

----------------------------------------------------------------------------
(* C25 *)

\* the error that a failed request leaves the refresh with
ErrorOf(ev) ==
    IF FailedNetOrHttp(ev) THEN UpdateFailed(Classified(ev))
    ELSE [type |-> "JSONDecodeError"]

\* C25: when the primary call of a refresh in Unknown or Open state succeeds
\* without a usable price and the fallback call fails, the refresh fails with
\* the error of the fallback call: the result of the primary call is neither
\* returned nor cached, and the snapshot cached before stays.
C25_FallbackFailureFails ==
    (market_state \in {None, "True"} /\ Len(events) = 2
     /\ LacksPrice(events[1]) /\ ~Succeeded(events[2]))
        => /\ pc = "idle"
           /\ outcome = Raise(ErrorOf(events[2]))
           /\ data = data_before

C25_Witness ==
    /\ AtRest
    /\ market_state = None
    /\ Len(events) = 2
    /\ LacksPrice(events[1])
    /\ events[2].e = "ClientError"
    /\ outcome.k = "raise"
    /\ data_before # NoData
    /\ data_before # events[1].body
    /\ data = data_before

----------------------------------------------------------------------------
(* C26 *)

----------------------------------------------------------------------------
(* C27 *)

\* a refresh begins, and finds the market closed
BeginsClosed ==
    /\ pc = "idle"
    /\ ~pushed'
    /\ market_state' = "False"
    /\ <<pc, calls, events, outcome, data_before, market_state>>' #
           <<pc, calls, events, outcome, data_before, market_state>>

\* C27: a refresh that finds the market closed makes exactly one call, the
\* seed call, as long as no snapshot is cached, whether or not earlier seed
\* calls have failed; a seed call that succeeds caches its result, with or
\* without a price, and a failed one caches nothing; and once a snapshot is
\* cached, a refresh that finds the market closed makes no call and returns
\* that snapshot unchanged.
C27_ClosedSeedsUntilCached ==
    [][/\ (BeginsClosed /\ data = NoData)
            => /\ pc' = "L107"
               /\ calls' = <<exchange_code>>
               /\ data' = NoData
       /\ (BeginsClosed /\ data # NoData)
            => /\ pc' = "idle"
               /\ calls' = <<>>
               /\ events' = <<>>
               /\ outcome' = Return(data)
               /\ data' = data
       /\ (pc = "L107" /\ pc' = "idle")
            => /\ calls' = <<exchange_code>>
               /\ Len(events') = 1
               /\ IF Succeeded(events'[1])
                  THEN /\ data' = events'[1].body
                       /\ outcome' = Return(events'[1].body)
                  ELSE /\ data' = NoData
                       /\ outcome'.k = "raise"]_vars

C27_Witness ==
    /\ AtRest /\ Mapped
    /\ market_state = "False"
    /\ calls = <<>>
    /\ data_before # NoData
    /\ Truthy(data_before) /\ PriceMissing(data_before)
    /\ outcome = Return(data_before)
    /\ data = data_before

----------------------------------------------------------------------------
(* C28 *)

\* C28: for an entry of the table and a weekday whose open and close times
\* are equal, the session counts as overnight: the market state is Open at
\* every local time of that day.
C28_EqualTimesAlwaysOpen ==
    (Queried /\ BothGiven /\ TimeOfDay(OpenToday) = TimeOfDay(CloseToday))
        => market_state = "True"

C28_Witness ==
    /\ Queried
    /\ OpenToday = <<8, 0>> /\ CloseToday = <<8, 0>>
    /\ LocalTick = TimeOfDay(<<12, 0>>) + 1
    /\ market_state = "True"

----------------------------------------------------------------------------
(* C29 *)

\* the open and close entries of the local weekday before
OpenBefore == hours.open[(LocalDay + 6) % 7]
CloseBefore == hours.close[(LocalDay + 6) % 7]

\* the market state that the entries of one weekday give at a time of day
SessionState(open, close, tick) ==
    IF open = <<>> \/ close = <<>> THEN "False"
    ELSE IF TimeOfDay(close) <= TimeOfDay(open)
         THEN IF tick >= TimeOfDay(open) \/ tick <= TimeOfDay(close) THEN "True" ELSE "False"
    ELSE IF TimeOfDay(open) <= tick /\ tick <= TimeOfDay(close) THEN "True" ELSE "False"

\* C29: the market state computed at an instant is given by the open and
\* close entries of the local weekday of that instant alone: at a local time
\* between midnight and the close time of an overnight entry of today it is
\* Open, whatever the entries of the day before, and on a day whose entries
\* are empty it is Closed, also while the overnight session of the day before
\* has not reached its close time.
C29_OwnWeekdayOnly ==
    (Queried /\ market_state \in {"True", "False"})
        => /\ market_state = SessionState(OpenToday, CloseToday, LocalTick)
           /\ (BothGiven /\ TimeOfDay(CloseToday) <= TimeOfDay(OpenToday)
               /\ LocalTick <= TimeOfDay(CloseToday))
                 => market_state = "True"
           /\ ~BothGiven => market_state = "False"

C29_Witness ==
    /\ Queried
    /\ LocalDay = 5
    /\ ~BothGiven
    /\ OpenBefore = <<22, 0>> /\ CloseBefore = <<6, 0>>
    /\ LocalTick < TimeOfDay(CloseBefore)
    /\ market_state = "False"

----------------------------------------------------------------------------
(* C31 *)

\* the select form has been submitted
SelectStepHandled == step = "select" /\ step' # "select"

\* the (ISIN, exchange code) pairs that are configured
ConfiguredPairs == {<<e.data.isin, e.data.exchange_code>> : e \in entries}

\* C31: at most one configuration entry exists for an (ISIN, exchange code)
\* pair; a submitted select form whose pair is already configured aborts the
\* wizard and leaves the entries as they are; any other creates exactly one
\* entry, whose data are the ISIN of the wizard and the selected exchange and
\* currency and whose only option is the interval in whole seconds.
C31_OneEntryPerPair ==
    /\ [](\A e1, e2 \in entries :
             <<e1.data.isin, e1.data.exchange_code>> = <<e2.data.isin, e2.data.exchange_code>>
                 => e1 = e2)
    /\ [][SelectStepHandled =>
            LET pair == <<flow_isin, user_input'["exchange_code"]>>
                interval == IF "update_interval" \in DOMAIN user_input'
                            THEN user_input'["update_interval"].n ELSE 60
            IN  IF pair \in ConfiguredPairs
                THEN step' = "abort" /\ entries' = entries
                ELSE /\ step' = "create_entry"
                     /\ \E e \in entries' :
                          /\ entries' = entries \cup {e}
                          /\ e \notin entries
                          /\ e.data = [isin |-> flow_isin,
                                       exchange_code |-> user_input'["exchange_code"],
                                       currency_sign |-> user_input'["currency_sign"]]
                          /\ e.options = [k \in {"update_interval"} |-> Num(interval, FALSE)]
       ]_vars

C31_Witness ==
    /\ step = "abort"
    /\ Cardinality(entries) = 2
    /\ \E e \in entries :
         /\ e.data.exchange_code = user_input["exchange_code"]
         /\ e.data.currency_sign # user_input["currency_sign"]

----------------------------------------------------------------------------
(* Vocabulary of the properties of the history entity and its service *)

\* the fetch_history service has been called
ServiceCalled == service'.seq # service.seq

\* the entries that are set up
Loaded == {id \in EntryIds : setup_of[id] = "loaded"}

\* the call of the service ended in an AttributeError
LookupCrashed(call) == call.result.k = "raise" /\ call.result.exc.type = "AttributeError"

----------------------------------------------------------------------------
(* C32 *)

\* C32: at most one global history entity is ever created and every entry
\* that is set up refers to it; and a call of fetch_history while at least one
\* entry is set up finds that entity, makes its request and, the request
\* answered with chart data, hands the payload to that entity, in whatever
\* order the entries were set up and unloaded.
C32_OneHistoryEntityFound ==
    /\ [](/\ Len(sensors) <= 1
          /\ \A id \in Loaded :
                DictGet(hass_data, id, Store(NoData)).history_entity = Sensor(1))
    /\ [][(ServiceCalled /\ Loaded # {}) =>
             /\ ~LookupCrashed(service')
             /\ service'.request.e # "none"
             /\ Succeeded(service'.request) =>
                   sensors'[1] = make_sensor_payload(service'.request.body)]_vars

----------------------------------------------------------------------------
(* C33 *)

\* the history entity that a call of the service finds in hass.data
FoundEntity == find_history_entity(hass_data).v

\* C33: a call of fetch_history whose request for the chart data fails leaves
\* the history file as it was and fires no history_fetched event, and the
\* history entity is given the content of the history file if there is one
\* and keeps its payload otherwise; a call whose request succeeds gives the
\* entity the fetched payload and fires the event, whether or not the file
\* could be saved.
C33_FailedFetchServesCache ==
    [][(ServiceCalled /\ service'.request.e # "none") =>
          IF ~Succeeded(service'.request)
          THEN /\ history_file' = history_file
               /\ ~service'.fired
               /\ FoundEntity.t = "sensor" =>
                    sensors'[FoundEntity.id] =
                        IF history_file.t = "json"
                        THEN make_sensor_payload(history_file.v)
                        ELSE sensors[FoundEntity.id]
          ELSE /\ service'.fired
               /\ FoundEntity.t = "sensor" =>
                    sensors'[FoundEntity.id] = make_sensor_payload(service'.request.body)]_vars

----------------------------------------------------------------------------
(* C34 *)

\* the caller c has begun a call of ensure_logo_svg
LogoBegun(c) == logo_call'[c].seq # logo_call[c].seq

\* the download of the call of the caller c has ended
LogoDownloaded(c) == logo_call[c].pc = "get" /\ logo_call'[c].pc = "idle"

\* the call returned an URL
ReturnedUrl(call) == call.pc = "idle" /\ call.result.k = "return" /\ call.result.v.t = "url"

\* the download failed, or its body is neither JSON nor SVG
NothingUsable(ev) ==
    \/ ev.e \in {"TimeoutError", "ClientError"}
    \/ ev.e = "response" /\ ev.body \in {BodyBroken, BodyHtml}

====
